---- MODULE Spec2Model ----
(***************************************************************************)
(* MockTransaction of ts-mock-firebase (src/src/firestore/                 *)
(* MockTransaction.ts): the staging buffers of a transaction, the          *)
(* read-before-write flag, the commit loop and its notifications, and the  *)
(* rollback hook, over a small document store.                             *)
(***************************************************************************)
EXTENDS Integers, Sequences, FiniteSets, TLC

\* Number of calls (get, set, update, delete, commit, rollback) a client
\* makes on one transaction object.
MaxCalls == 4

\* The transaction objects alive at the same time.
Txns == {"T1", "T2"}

\* Document paths, as their '/'-separated segments, in the order in which the
\* store lists them.
PathOrder == << <<"c1", "p1">>, <<"c2", "p2">>, <<"c1", "p3">> >>
Paths == {PathOrder[i] : i \in 1..Len(PathOrder)}

\* A JavaScript value that is either undefined or an object: <<>> is
\* undefined, <<d>> is the object d (a function from field names to values).
Undefined == <<>>
Some(d) == <<d>>
Truthy(v) == v # Undefined

\* Stored document data present before the transactions start.
Doc0 == [a |-> 0, c |-> 3]

\* The payloads the client passes to set and update.
PayloadA == [a |-> 1, b |-> 2]
PayloadB == [c |-> 4]
Payloads == {PayloadA, PayloadB}

\* SetOptions as passed by the client: absent, {merge: false}, {merge: true}.
OptionValues == {Undefined, Some([merge |-> FALSE]), Some([merge |-> TRUE])}

\* Errors the per-document commit can raise.
Errors == {"E1", "E2"}

VARIABLES
    store,                 \* path -> stored data of the document (documentRef.data)
    modified,              \* txn -> MockTransaction.modified
    transactionData,       \* txn -> MockTransaction.transactionData
    transactionOperation,  \* txn -> MockTransaction.transactionOperation
    pc,                    \* txn -> position of commit(): "idle" | "loop" | "await" | "fire"
    idx,                   \* txn -> index of the next key of the for-in loop of commit
    collectionChanges,     \* txn -> the local collectionChanges of commit
    events,                \* txn -> notifications fired by the latest call on txn
    invoked,               \* txn -> calls of commitChange made in that call
    applied,               \* txn -> paths whose commitChange completed in that call
    rollbacks,             \* txn -> rollback() invocations made in that call
    thrown,                \* txn -> the error commitChange raised in that call
    wrote,                 \* txn -> set, update or delete has been called
    firstStaged,           \* txn -> the paths written, in the order of their first write
    lastWriter,            \* path -> the txn whose commitChange wrote the path last
    remaining,             \* txn -> calls the client still makes
    ret                    \* txn -> the latest call on txn and its outcome

vars == <<store, modified, transactionData, transactionOperation, pc, idx,
          collectionChanges, events, invoked, applied, rollbacks, thrown, wrote,
          firstStaged, lastWriter, remaining, ret>>

\* The local state of a running commit.
commitVars == <<pc, idx, collectionChanges>>

----------------------------------------------------------------------------
\* JavaScript objects with string keys: a sequence of <<key, value>> in
\* insertion order. Assigning an existing key keeps its position.

Keys(obj) == [i \in 1..Len(obj) |-> obj[i][1]]

HasKey(obj, k) == \E i \in 1..Len(obj) : obj[i][1] = k

\* obj[k]: undefined when the key is missing.
Lookup(obj, k) ==
    IF HasKey(obj, k)
    THEN obj[CHOOSE i \in 1..Len(obj) : obj[i][1] = k][2]
    ELSE Undefined

\* An assignment that moves an existing key to the end of the object.
AssignMovesKey(obj, k, v) ==
    Append(SelectSeq(obj, LAMBDA e : e[1] # k), <<k, v>>)

\* obj[k] = v
Assign(obj, k, v) ==
    IF HasKey(obj, k)
    THEN [i \in 1..Len(obj) |-> IF obj[i][1] = k THEN <<k, v>> ELSE obj[i]]
    ELSE Append(obj, <<k, v>>)

\* A spread in which the keys of x win over those of y.
SpreadLeftWins(x, y) ==
    LET dx == IF Truthy(x) THEN DOMAIN x[1] ELSE {}
        dy == IF Truthy(y) THEN DOMAIN y[1] ELSE {}
    IN  Some([k \in dx \cup dy |-> IF k \in dx THEN x[1][k] ELSE y[1][k]])

\* { ...x, ...y } where x and y are undefined or objects.
Spread(x, y) ==
    LET dx == IF Truthy(x) THEN DOMAIN x[1] ELSE {}
        dy == IF Truthy(y) THEN DOMAIN y[1] ELSE {}
    IN  Some([k \in dx \cup dy |-> IF k \in dy THEN y[1][k] ELSE x[1][k]])

\* options && options.merge
MergeRequested(options) == Truthy(options) /\ options[1].merge

----------------------------------------------------------------------------
\* The collaborators of the transaction: document references, the store.

\* documentRef.data
DataOf(st, path) == st[path]

\* documentRef.updateInTransaction(transactionData, data, ...): the base with
\* the partial payload laid over it.
updateInTransaction(docData, data, more) == Spread(docData, data)

\* documentRef.setInTransaction(transactionData, data, options): the result
\* data handed in by the transaction.
setInTransaction(docData, data, options) ==
    IF MergeRequested(options) THEN Spread(docData, data) ELSE docData

\* path.substr(0, path.lastIndexOf('/'))
CollectionPath(path) == SubSeq(path, 1, Len(path) - 1)

\* The position of a document among the existing documents of its
\* collection, -1 when it does not exist.
OldIndex(st, path) ==
    IF st[path] = Undefined THEN -1
    ELSE LET me == CHOOSE i \in 1..Len(PathOrder) : PathOrder[i] = path
         IN  Cardinality({i \in 1..(me - 1) :
                 /\ CollectionPath(PathOrder[i]) = CollectionPath(path)
                 /\ st[PathOrder[i]] # Undefined})

\* doc.commitChange(operation, value): the store after the staged write.
CommitChangeStore(st, path, operation, value) ==
    [st EXCEPT ![path] = IF operation = "removed" THEN Undefined ELSE value]

\* doc.commitChange(operation, value): the change descriptor it returns.
CommitChangeResult(st, path, operation, value) ==
    [type |-> operation, doc |-> path, data |-> value,
     oldIndex |-> OldIndex(st, path)]

----------------------------------------------------------------------------
\* What a call did, as seen by its caller: op and its arguments, and kind, the
\* outcome ("this", "data", "void", "resolved", "rejected", "pending" or the
\* name of the error thrown) with the value returned or the error raised.
NoCall ==
    [op |-> "none", path |-> <<>>, data |-> Undefined, options |-> Undefined,
     kind |-> "none", val |-> Undefined, err |-> ""]

Returned(op, path, data, options, kind, val, err) ==
    [op |-> op, path |-> path, data |-> data, options |-> options,
     kind |-> kind, val |-> val, err |-> err]

\* The client makes one call at a time on a transaction object.
CanCall(t) == pc[t] = "idle" /\ remaining[t] > 0

\* A new call on t: nothing fired, applied, rolled back or raised by it yet.
NewCall(t) ==
    /\ events' = [events EXCEPT ![t] = <<>>]
    /\ invoked' = [invoked EXCEPT ![t] = 0]
    /\ applied' = [applied EXCEPT ![t] = <<>>]
    /\ rollbacks' = [rollbacks EXCEPT ![t] = 0]
    /\ thrown' = [thrown EXCEPT ![t] = ""]

\* A write call on path: t has written, and path has been written by t.
Written(t, path) ==
    /\ wrote' = [wrote EXCEPT ![t] = TRUE]
    /\ firstStaged' =
           [firstStaged EXCEPT
                ![t] = IF \E i \in 1..Len(@) : @[i] = path THEN @ ELSE Append(@, path)]

\* The store the transactions start from: c1/p1 and c1/p3 exist, c2/p2 does
\* not.
InitStore ==
    [path \in Paths |-> IF CollectionPath(path) = <<"c1">> THEN Some(Doc0) ELSE Undefined]

InitTxn ==
    /\ modified = [t \in Txns |-> FALSE]
    /\ transactionData = [t \in Txns |-> <<>>]
    /\ transactionOperation = [t \in Txns |-> <<>>]
    /\ pc = [t \in Txns |-> "idle"]
    /\ idx = [t \in Txns |-> 0]
    /\ collectionChanges = [t \in Txns |-> <<>>]
    /\ events = [t \in Txns |-> <<>>]
    /\ invoked = [t \in Txns |-> 0]
    /\ lastWriter = [path \in Paths |-> "none"]
    /\ applied = [t \in Txns |-> <<>>]
    /\ rollbacks = [t \in Txns |-> 0]
    /\ thrown = [t \in Txns |-> ""]
    /\ wrote = [t \in Txns |-> FALSE]
    /\ firstStaged = [t \in Txns |-> <<>>]
    /\ ret = [t \in Txns |-> NoCall]

\* One transaction under test, the other never used.
Init ==
    /\ store = InitStore
    /\ InitTxn
    /\ remaining = [t \in Txns |-> IF t = "T1" THEN MaxCalls ELSE 0]

----------------------------------------------------------------------------
\* A get that marks the transaction as modified.
getMarksModified(t, path) ==
    /\ CanCall(t)
    /\ remaining' = [remaining EXCEPT ![t] = @ - 1]
    /\ NewCall(t)
    /\ modified' = [modified EXCEPT ![t] = TRUE]
    /\ IF modified[t]
       THEN ret' = [ret EXCEPT ![t] = Returned("get", path, Undefined, Undefined,
                                               "ValidationError", Undefined, "")]
       ELSE ret' = [ret EXCEPT ![t] = Returned("get", path, Undefined, Undefined,
                                               "data", DataOf(store, path), "")]
    /\ UNCHANGED <<store, transactionData, transactionOperation,
                   commitVars, wrote, firstStaged, lastWriter>>

\* get(documentRef)
get(t, path) ==
    /\ CanCall(t)
    /\ remaining' = [remaining EXCEPT ![t] = @ - 1]
    /\ NewCall(t)
    /\ IF modified[t]
       THEN ret' = [ret EXCEPT ![t] = Returned("get", path, Undefined, Undefined,
                                               "ValidationError", Undefined, "")]
       ELSE ret' = [ret EXCEPT ![t] = Returned("get", path, Undefined, Undefined,
                                               "data", DataOf(store, path), "")]
    /\ UNCHANGED <<store, modified, transactionData, transactionOperation,
                   commitVars, wrote, firstStaged, lastWriter>>

\* A classification that takes every set for the creation of a document.
ChangeTypeAlwaysAdded(docData) == "added"

\* const changeType = docData ? 'modified' : 'added'
ChangeType(docData) == IF Truthy(docData) THEN "modified" ELSE "added"

\* set(documentRef, data, options)
set(t, path, data, options) ==
    LET prior    == Lookup(transactionData[t], path)
        stored   == DataOf(store, path)
        docData  == IF Truthy(prior) THEN prior
                    ELSE IF Truthy(stored) THEN Spread(stored, Undefined)
                    ELSE stored
        changeType == ChangeType(docData)
        staged   == IF MergeRequested(options)
                    THEN updateInTransaction(Spread(docData, Some(data)), Some(data), <<>>)
                    ELSE setInTransaction(Spread(Undefined, Some(data)), Some(data), options)
    IN  /\ CanCall(t)
        /\ remaining' = [remaining EXCEPT ![t] = @ - 1]
        /\ NewCall(t)
        /\ Written(t, path)
        /\ modified' = [modified EXCEPT ![t] = TRUE]
        /\ transactionData' = [transactionData EXCEPT ![t] = Assign(@, path, staged)]
        /\ transactionOperation' =
               [transactionOperation EXCEPT ![t] = Assign(@, path, changeType)]
        /\ ret' = [ret EXCEPT ![t] = Returned("set", path, Some(data), options, "this", Undefined, "")]
        /\ UNCHANGED <<store, commitVars, lastWriter>>

\* The object update was called with, undefined when it was called with a
\* field name.
ObjectArg(dataOrField) ==
    IF dataOrField.typeof = "object" THEN Some(dataOrField.value) ELSE Undefined

\* An update that classifies its write as set does.
updateClassifies(t, path, dataOrField) ==
    /\ CanCall(t)
    /\ remaining' = [remaining EXCEPT ![t] = @ - 1]
    /\ NewCall(t)
    /\ modified' = [modified EXCEPT ![t] = TRUE]
    /\ IF dataOrField.typeof = "object"
       THEN LET prior == Lookup(transactionData[t], path)
                data  == IF Truthy(prior) THEN prior
                         ELSE Spread(DataOf(store, path), Undefined)
                staged == updateInTransaction(data, Some(dataOrField.value), <<>>)
                changeType == IF Truthy(prior) \/ Truthy(DataOf(store, path))
                              THEN "modified" ELSE "added"
            IN  /\ transactionData' =
                       [transactionData EXCEPT ![t] = Assign(@, path, staged)]
                /\ transactionOperation' =
                       [transactionOperation EXCEPT ![t] = Assign(@, path, changeType)]
                /\ Written(t, path)
                /\ ret' = [ret EXCEPT
                             ![t] = Returned("update", path, ObjectArg(dataOrField),
                                             Undefined, "this", Undefined, "")]
       ELSE /\ ret' = [ret EXCEPT
                         ![t] = Returned("update", path, ObjectArg(dataOrField),
                                         Undefined, "NotImplementedYet", Undefined, "")]
            /\ wrote' = [wrote EXCEPT ![t] = TRUE]
            /\ UNCHANGED <<transactionData, transactionOperation, firstStaged>>
    /\ UNCHANGED <<store, commitVars, lastWriter>>

\* An update that marks the transaction as modified for the object form only.
updateChecksFormFirst(t, path, dataOrField) ==
    /\ CanCall(t)
    /\ remaining' = [remaining EXCEPT ![t] = @ - 1]
    /\ NewCall(t)
    /\ IF dataOrField.typeof = "object"
       THEN LET prior == Lookup(transactionData[t], path)
                data  == IF Truthy(prior) THEN prior
                         ELSE Spread(DataOf(store, path), Undefined)
                staged == updateInTransaction(data, Some(dataOrField.value), <<>>)
            IN  /\ modified' = [modified EXCEPT ![t] = TRUE]
                /\ transactionData' =
                       [transactionData EXCEPT ![t] = Assign(@, path, staged)]
                /\ transactionOperation' =
                       [transactionOperation EXCEPT ![t] = Assign(@, path, "modified")]
                /\ Written(t, path)
                /\ ret' = [ret EXCEPT
                             ![t] = Returned("update", path, ObjectArg(dataOrField),
                                             Undefined, "this", Undefined, "")]
       ELSE /\ ret' = [ret EXCEPT
                         ![t] = Returned("update", path, ObjectArg(dataOrField),
                                         Undefined, "NotImplementedYet", Undefined, "")]
            /\ wrote' = [wrote EXCEPT ![t] = TRUE]
            /\ UNCHANGED <<modified, transactionData, transactionOperation, firstStaged>>
    /\ UNCHANGED <<store, commitVars, lastWriter>>

\* update(documentRef, dataOrField, ...moreFieldsAndValues); dataOrField is
\* given with its typeof.
update(t, path, dataOrField) ==
    /\ CanCall(t)
    /\ remaining' = [remaining EXCEPT ![t] = @ - 1]
    /\ NewCall(t)
    /\ modified' = [modified EXCEPT ![t] = TRUE]
    /\ IF dataOrField.typeof = "object"
       THEN LET prior == Lookup(transactionData[t], path)
                data  == IF Truthy(prior) THEN prior
                         ELSE Spread(DataOf(store, path), Undefined)
                staged == updateInTransaction(data, Some(dataOrField.value), <<>>)
            IN  /\ transactionData' =
                       [transactionData EXCEPT ![t] = Assign(@, path, staged)]
                /\ transactionOperation' =
                       [transactionOperation EXCEPT ![t] = Assign(@, path, "modified")]
                /\ Written(t, path)
                /\ ret' = [ret EXCEPT
                             ![t] = Returned("update", path, ObjectArg(dataOrField),
                                             Undefined, "this", Undefined, "")]
       ELSE /\ ret' = [ret EXCEPT
                         ![t] = Returned("update", path, ObjectArg(dataOrField),
                                         Undefined, "NotImplementedYet", Undefined, "")]
            /\ wrote' = [wrote EXCEPT ![t] = TRUE]
            /\ UNCHANGED <<transactionData, transactionOperation, firstStaged>>
    /\ UNCHANGED <<store, commitVars, lastWriter>>

\* A delete that stages the absent value and records no operation for it.
deleteOnlyData(t, path) ==
    /\ CanCall(t)
    /\ remaining' = [remaining EXCEPT ![t] = @ - 1]
    /\ NewCall(t)
    /\ modified' = [modified EXCEPT ![t] = TRUE]
    /\ Written(t, path)
    /\ transactionData' = [transactionData EXCEPT ![t] = Assign(@, path, Undefined)]
    /\ ret' = [ret EXCEPT ![t] = Returned("delete", path, Undefined, Undefined, "this", Undefined, "")]
    /\ UNCHANGED <<store, transactionOperation, commitVars, lastWriter>>

\* A delete that forgets to mark the transaction as modified.
deleteNoFlag(t, path) ==
    /\ CanCall(t)
    /\ remaining' = [remaining EXCEPT ![t] = @ - 1]
    /\ NewCall(t)
    /\ Written(t, path)
    /\ transactionData' = [transactionData EXCEPT ![t] = Assign(@, path, Undefined)]
    /\ transactionOperation' =
           [transactionOperation EXCEPT ![t] = Assign(@, path, "removed")]
    /\ ret' = [ret EXCEPT ![t] = Returned("delete", path, Undefined, Undefined, "this", Undefined, "")]
    /\ UNCHANGED <<store, modified, commitVars, lastWriter>>

\* A delete that keeps the value staged before it.
deleteKeepsData(t, path) ==
    /\ CanCall(t)
    /\ remaining' = [remaining EXCEPT ![t] = @ - 1]
    /\ NewCall(t)
    /\ Written(t, path)
    /\ modified' = [modified EXCEPT ![t] = TRUE]
    /\ transactionData' =
           [transactionData EXCEPT
                ![t] = IF HasKey(@, path) THEN @ ELSE Assign(@, path, Undefined)]
    /\ transactionOperation' =
           [transactionOperation EXCEPT ![t] = Assign(@, path, "removed")]
    /\ ret' = [ret EXCEPT ![t] = Returned("delete", path, Undefined, Undefined, "this", Undefined, "")]
    /\ UNCHANGED <<store, commitVars, lastWriter>>

\* A delete that removes the stored document at once.
deleteWritesThrough(t, path) ==
    /\ CanCall(t)
    /\ remaining' = [remaining EXCEPT ![t] = @ - 1]
    /\ NewCall(t)
    /\ Written(t, path)
    /\ modified' = [modified EXCEPT ![t] = TRUE]
    /\ transactionData' = [transactionData EXCEPT ![t] = Assign(@, path, Undefined)]
    /\ transactionOperation' =
           [transactionOperation EXCEPT ![t] = Assign(@, path, "removed")]
    /\ store' = [store EXCEPT ![path] = Undefined]
    /\ ret' = [ret EXCEPT ![t] = Returned("delete", path, Undefined, Undefined, "this", Undefined, "")]
    /\ UNCHANGED <<commitVars, lastWriter>>

\* delete(documentRef)
delete(t, path) ==
    /\ CanCall(t)
    /\ remaining' = [remaining EXCEPT ![t] = @ - 1]
    /\ NewCall(t)
    /\ Written(t, path)
    /\ modified' = [modified EXCEPT ![t] = TRUE]
    /\ transactionData' = [transactionData EXCEPT ![t] = Assign(@, path, Undefined)]
    /\ transactionOperation' =
           [transactionOperation EXCEPT ![t] = Assign(@, path, "removed")]
    /\ ret' = [ret EXCEPT ![t] = Returned("delete", path, Undefined, Undefined, "this", Undefined, "")]
    /\ UNCHANGED <<store, commitVars, lastWriter>>

\* The arguments update is called with: an object, or a field name followed
\* by its value (update(ref, "a", 1), kept here as the pair it denotes).
UpdateArgs ==
    {[typeof |-> "object", value |-> d] : d \in Payloads}
        \cup {[typeof |-> "string", value |-> [a |-> 1]]}

----------------------------------------------------------------------------
\* A commit that takes a transaction with nothing staged for a failure: it
\* rolls back and rejects.
commitRejectsEmpty(t) ==
    /\ CanCall(t)
    /\ remaining' = [remaining EXCEPT ![t] = @ - 1]
    /\ events' = [events EXCEPT ![t] = <<>>]
    /\ invoked' = [invoked EXCEPT ![t] = 0]
    /\ applied' = [applied EXCEPT ![t] = <<>>]
    /\ thrown' = [thrown EXCEPT ![t] = ""]
    /\ collectionChanges' = [collectionChanges EXCEPT ![t] = <<>>]
    /\ IF Len(transactionOperation[t]) = 0
       THEN /\ pc' = pc
            /\ idx' = idx
            /\ rollbacks' = [rollbacks EXCEPT ![t] = 1]
            /\ ret' = [ret EXCEPT ![t] = Returned("commit", <<>>, Undefined, Undefined,
                                                  "rejected", Undefined, "E1")]
       ELSE /\ pc' = [pc EXCEPT ![t] = "loop"]
            /\ idx' = [idx EXCEPT ![t] = 1]
            /\ rollbacks' = [rollbacks EXCEPT ![t] = 0]
            /\ ret' = [ret EXCEPT ![t] = Returned("commit", <<>>, Undefined, Undefined,
                                                  "pending", Undefined, "")]
    /\ UNCHANGED <<store, modified, transactionData, transactionOperation, wrote,
                   firstStaged, lastWriter>>

\* commit(): the call, up to its first await. With nothing staged both loops
\* are empty and the promise resolves at once.
commit(t) ==
    /\ CanCall(t)
    /\ remaining' = [remaining EXCEPT ![t] = @ - 1]
    /\ NewCall(t)
    /\ collectionChanges' = [collectionChanges EXCEPT ![t] = <<>>]
    /\ IF Len(transactionOperation[t]) = 0
       THEN /\ pc' = pc
            /\ idx' = idx
            /\ ret' = [ret EXCEPT ![t] = Returned("commit", <<>>, Undefined, Undefined, "resolved", Undefined, "")]
       ELSE /\ pc' = [pc EXCEPT ![t] = "loop"]
            /\ idx' = [idx EXCEPT ![t] = 1]
            /\ ret' = [ret EXCEPT ![t] = Returned("commit", <<>>, Undefined, Undefined, "pending", Undefined, "")]
    /\ UNCHANGED <<store, modified, transactionData, transactionOperation, wrote,
                   firstStaged, lastWriter>>

\* The head of a round of the for-in loop of commit: doc.commitChange is
\* called for the next key, and commit awaits it.
commitLoop(t) ==
    /\ pc[t] = "loop"
    /\ pc' = [pc EXCEPT ![t] = "await"]
    /\ invoked' = [invoked EXCEPT ![t] = @ + 1]
    /\ UNCHANGED <<store, modified, transactionData, transactionOperation, idx,
                   collectionChanges, events, applied, rollbacks, thrown, wrote,
                   firstStaged, lastWriter, remaining, ret>>

\* fireDocumentChangeEvent(type, oldIndex, false) for the changes of one
\* collection, in order.
RECURSIVE DocumentEvents(_)
DocumentEvents(documentChanges) ==
    IF documentChanges = <<>> THEN <<>>
    ELSE LET document == Head(documentChanges)
         IN  <<[sink |-> "document", target |-> document.doc,
                type |-> document.type, oldIndex |-> document.oldIndex,
                fromCache |-> FALSE, changes |-> <<>>]>>
             \o DocumentEvents(Tail(documentChanges))

\* A notification loop that notifies the collection before its documents.
RECURSIVE FireEventsBatchFirst(_)
FireEventsBatchFirst(changesByCollection) ==
    IF changesByCollection = <<>> THEN <<>>
    ELSE LET collectionId == Head(changesByCollection)[1]
             documentChanges == Head(changesByCollection)[2]
         IN  <<[sink |-> "collection", target |-> collectionId,
                type |-> "batch", oldIndex |-> -1,
                fromCache |-> FALSE, changes |-> documentChanges]>>
             \o DocumentEvents(documentChanges)
             \o FireEventsBatchFirst(Tail(changesByCollection))

\* The second loop of commit, over the collections in insertion order.
RECURSIVE FireEvents(_)
FireEvents(changesByCollection) ==
    IF changesByCollection = <<>> THEN <<>>
    ELSE LET collectionId == Head(changesByCollection)[1]
             documentChanges == Head(changesByCollection)[2]
         IN  DocumentEvents(documentChanges)
             \o <<[sink |-> "collection", target |-> collectionId,
                   type |-> "batch", oldIndex |-> -1,
                   fromCache |-> FALSE, changes |-> documentChanges]>>
             \o FireEvents(Tail(changesByCollection))

\* A round that notifies the document right after its change is applied,
\* before the remaining staged paths are committed.
commitResumeFiresEarly(t) ==
    /\ pc[t] = "await"
    /\ LET path == Keys(transactionOperation[t])[idx[t]]
           operation == Lookup(transactionOperation[t], path)
           value == Lookup(transactionData[t], path)
           documentChange == CommitChangeResult(store, path, operation, value)
           collectionPath == CollectionPath(path)
           changes == IF HasKey(collectionChanges[t], collectionPath)
                      THEN Lookup(collectionChanges[t], collectionPath)
                      ELSE <<>>
       IN  /\ store' = CommitChangeStore(store, path, operation, value)
           /\ collectionChanges' =
                  [collectionChanges EXCEPT
                       ![t] = Assign(@, collectionPath, Append(changes, documentChange))]
           /\ applied' = [applied EXCEPT ![t] = Append(@, path)]
           /\ lastWriter' = [lastWriter EXCEPT ![path] = t]
           /\ events' = [events EXCEPT ![t] = @ \o DocumentEvents(<<documentChange>>)]
    /\ IF idx[t] = Len(transactionOperation[t])
       THEN pc' = [pc EXCEPT ![t] = "fire"]
       ELSE pc' = [pc EXCEPT ![t] = "loop"]
    /\ idx' = [idx EXCEPT ![t] = @ + 1]
    /\ UNCHANGED <<modified, transactionData, transactionOperation,
                   invoked, rollbacks, thrown, wrote, firstStaged, remaining, ret>>

\* A round that leaves the store alone when another transaction has committed
\* the path in the meantime.
commitResumeSkipsStale(t) ==
    /\ pc[t] = "await"
    /\ LET path == Keys(transactionOperation[t])[idx[t]]
           operation == Lookup(transactionOperation[t], path)
           value == Lookup(transactionData[t], path)
           documentChange == CommitChangeResult(store, path, operation, value)
           collectionPath == CollectionPath(path)
           changes == IF HasKey(collectionChanges[t], collectionPath)
                      THEN Lookup(collectionChanges[t], collectionPath)
                      ELSE <<>>
       IN  /\ store' = IF lastWriter[path] \in {"none", t}
                       THEN CommitChangeStore(store, path, operation, value)
                       ELSE store
           /\ collectionChanges' =
                  [collectionChanges EXCEPT
                       ![t] = Assign(@, collectionPath, Append(changes, documentChange))]
           /\ applied' = [applied EXCEPT ![t] = Append(@, path)]
           /\ lastWriter' = [lastWriter EXCEPT ![path] = t]
    /\ IF idx[t] = Len(transactionOperation[t])
       THEN pc' = [pc EXCEPT ![t] = "fire"]
       ELSE pc' = [pc EXCEPT ![t] = "loop"]
    /\ idx' = [idx EXCEPT ![t] = @ + 1]
    /\ UNCHANGED <<modified, transactionData, transactionOperation, events,
                   invoked, rollbacks, thrown, wrote, firstStaged, remaining, ret>>

\* The rest of the round when commitChange succeeded: the staged write is in
\* the store and its change descriptor is pushed.
commitResume(t) ==
    /\ pc[t] = "await"
    /\ LET path == Keys(transactionOperation[t])[idx[t]]
           operation == Lookup(transactionOperation[t], path)
           value == Lookup(transactionData[t], path)
           documentChange == CommitChangeResult(store, path, operation, value)
           collectionPath == CollectionPath(path)
           changes == IF HasKey(collectionChanges[t], collectionPath)
                      THEN Lookup(collectionChanges[t], collectionPath)
                      ELSE <<>>
       IN  /\ store' = CommitChangeStore(store, path, operation, value)
           /\ collectionChanges' =
                  [collectionChanges EXCEPT
                       ![t] = Assign(@, collectionPath, Append(changes, documentChange))]
           /\ applied' = [applied EXCEPT ![t] = Append(@, path)]
           /\ lastWriter' = [lastWriter EXCEPT ![path] = t]
    /\ IF idx[t] = Len(transactionOperation[t])
       THEN pc' = [pc EXCEPT ![t] = "fire"]
       ELSE pc' = [pc EXCEPT ![t] = "loop"]
    /\ idx' = [idx EXCEPT ![t] = @ + 1]
    /\ UNCHANGED <<modified, transactionData, transactionOperation, events,
                   invoked, rollbacks, thrown, wrote, firstStaged, remaining, ret>>

\* rollback(): logs only.
rollbackBody(t) == rollbacks' = [rollbacks EXCEPT ![t] = @ + 1]

\* A catch block that rolls back and swallows the error.
commitCatchSwallows(t, error) ==
    /\ pc[t] = "await"
    /\ thrown' = [thrown EXCEPT ![t] = error]
    /\ rollbackBody(t)
    /\ ret' = [ret EXCEPT ![t] = Returned("commit", <<>>, Undefined, Undefined, "resolved", Undefined, "")]
    /\ pc' = [pc EXCEPT ![t] = "idle"]
    /\ idx' = [idx EXCEPT ![t] = 0]
    /\ collectionChanges' = [collectionChanges EXCEPT ![t] = <<>>]
    /\ UNCHANGED <<store, modified, transactionData, transactionOperation,
                   events, invoked, applied, wrote, firstStaged, lastWriter,
                   remaining>>

\* A catch block that still sends the notifications of the changes gathered so
\* far.
commitCatchFires(t, error) ==
    /\ pc[t] = "await"
    /\ thrown' = [thrown EXCEPT ![t] = error]
    /\ rollbackBody(t)
    /\ events' = [events EXCEPT ![t] = FireEvents(collectionChanges[t])]
    /\ ret' = [ret EXCEPT ![t] = Returned("commit", <<>>, Undefined, Undefined, "rejected", Undefined, error)]
    /\ pc' = [pc EXCEPT ![t] = "idle"]
    /\ idx' = [idx EXCEPT ![t] = 0]
    /\ collectionChanges' = [collectionChanges EXCEPT ![t] = <<>>]
    /\ UNCHANGED <<store, modified, transactionData, transactionOperation,
                   invoked, applied, wrote, firstStaged, lastWriter,
                   remaining>>

\* The rest of the round when commitChange raised error: the catch block.
\* The locals of commit are gone when it has thrown.
commitCatch(t, error) ==
    /\ pc[t] = "await"
    /\ thrown' = [thrown EXCEPT ![t] = error]
    /\ rollbackBody(t)
    /\ ret' = [ret EXCEPT ![t] = Returned("commit", <<>>, Undefined, Undefined, "rejected", Undefined, error)]
    /\ pc' = [pc EXCEPT ![t] = "idle"]
    /\ idx' = [idx EXCEPT ![t] = 0]
    /\ collectionChanges' = [collectionChanges EXCEPT ![t] = <<>>]
    /\ UNCHANGED <<store, modified, transactionData, transactionOperation,
                   events, invoked, applied, wrote, firstStaged, lastWriter,
                   remaining>>

\* The notifications of commit, after the last commitChange; commit resolves
\* and its locals are gone.
commitFire(t) ==
    /\ pc[t] = "fire"
    /\ events' = [events EXCEPT ![t] = FireEvents(collectionChanges[t])]
    /\ pc' = [pc EXCEPT ![t] = "idle"]
    /\ idx' = [idx EXCEPT ![t] = 0]
    /\ collectionChanges' = [collectionChanges EXCEPT ![t] = <<>>]
    /\ ret' = [ret EXCEPT ![t] = Returned("commit", <<>>, Undefined, Undefined, "resolved", Undefined, "")]
    /\ UNCHANGED <<store, modified, transactionData, transactionOperation,
                   invoked, applied, rollbacks, thrown, wrote, firstStaged,
                   lastWriter, remaining>>

\* rollback() called by the client.
rollback(t) ==
    /\ CanCall(t)
    /\ remaining' = [remaining EXCEPT ![t] = @ - 1]
    /\ events' = [events EXCEPT ![t] = <<>>]
    /\ invoked' = [invoked EXCEPT ![t] = 0]
    /\ applied' = [applied EXCEPT ![t] = <<>>]
    /\ thrown' = [thrown EXCEPT ![t] = ""]
    /\ rollbacks' = [rollbacks EXCEPT ![t] = 1]
    /\ ret' = [ret EXCEPT ![t] = Returned("rollback", <<>>, Undefined, Undefined, "void", Undefined, "")]
    /\ UNCHANGED <<store, modified, transactionData, transactionOperation,
                   commitVars, wrote, firstStaged, lastWriter>>

----------------------------------------------------------------------------
Next ==
    \/ \E t \in Txns, path \in Paths : get(t, path)
    \/ \E t \in Txns, path \in Paths, data \in Payloads, options \in OptionValues :
           set(t, path, data, options)
    \/ \E t \in Txns, path \in Paths, dataOrField \in UpdateArgs :
           update(t, path, dataOrField)
    \/ \E t \in Txns, path \in Paths : delete(t, path)
    \/ \E t \in Txns : commit(t)
    \/ \E t \in Txns : commitLoop(t)
    \/ \E t \in Txns : commitResume(t)
    \/ \E t \in Txns, error \in Errors : commitCatch(t, error)
    \/ \E t \in Txns : commitFire(t)
    \/ \E t \in Txns : rollback(t)

Spec == Init /\ [][Next]_vars

\* Two transactions on one store, each with MaxCallsTwo calls, reading and
\* writing the same document.
MaxCallsTwo == 2

Contested == {PathOrder[1]}

InitTwo ==
    /\ store = InitStore
    /\ InitTxn
    /\ remaining = [t \in Txns |-> MaxCallsTwo]

NextTwo ==
    \/ \E t \in Txns, path \in Contested : get(t, path)
    \/ \E t \in Txns, path \in Contested, data \in Payloads, options \in OptionValues :
           set(t, path, data, options)
    \/ \E t \in Txns, path \in Contested, dataOrField \in UpdateArgs :
           update(t, path, dataOrField)
    \/ \E t \in Txns, path \in Contested : delete(t, path)
    \/ \E t \in Txns : commit(t)
    \/ \E t \in Txns : commitLoop(t)
    \/ \E t \in Txns : commitResume(t)
    \/ \E t \in Txns, error \in Errors : commitCatch(t, error)
    \/ \E t \in Txns : commitFire(t)

SpecTwo == InitTwo /\ [][NextTwo]_vars


----------------------------------------------------------------------------
\* Properties.

WriteOps == {"set", "update", "delete"}

\* The step is a call on t, and ret'[t] tells which.
Called(t) == remaining'[t] = remaining[t] - 1

\* The latest call on t is a commit that has ended.
CommitEnded(t) == ret[t].op = "commit" /\ ret[t].kind \in {"resolved", "rejected"}

\* C1. Read-before-write: a get on a transaction on which set, update or
\* delete has been called before fails with ValidationError, whatever calls
\* (commit and rollback included) were made in between.
ReadBeforeWrite ==
    \A t \in Txns :
        (ret[t].op = "get" /\ wrote[t]) => ret[t].kind = "ValidationError"

\* A get that failed after a write and a commit that changed the store.
ReadBeforeWriteWitness ==
    \E t \in Txns :
        /\ ret[t].op = "get" /\ wrote[t]
        /\ ret[t].kind = "ValidationError"
        /\ transactionOperation[t] # <<>>
        /\ store # InitStore

\* C2. All-or-nothing commit, as claimed: when a commit has ended, resolved or
\* rejected, its per-document commits were applied for all staged paths or
\* for none of them.
AllOrNothing ==
    \A t \in Txns :
        CommitEnded(t) =>
            \/ applied[t] = <<>>
            \/ applied[t] = Keys(transactionOperation[t])

\* C3. A commit in which a per-document commit raised has invoked rollback
\* exactly once and has rejected with the error that was raised.
CommitFailureRollsBack ==
    \A t \in Txns :
        thrown[t] # "" =>
            /\ rollbacks[t] = 1
            /\ ret[t].op = "commit"
            /\ ret[t].kind = "rejected"
            /\ ret[t].err = thrown[t]

CommitFailureWitness ==
    \E t \in Txns :
        /\ thrown[t] = "E2"
        /\ ret[t].kind = "rejected"
        /\ Len(applied[t]) = 1
        /\ Len(transactionOperation[t]) = 2

\* The paths of a sequence of change descriptors.
ChangedPaths(changes) == [i \in 1..Len(changes) |-> changes[i].doc]

\* The batch notifications fired to collection c.
BatchesOf(t, c) ==
    SelectSeq(events[t], LAMBDA e : e.sink = "collection" /\ e.target = c)

\* C4. Commit ordering: a commit that resolved has committed the staged paths
\* in the order of their first write, and has handed to the batch sink of
\* each collection the changes of the paths written in that collection, in
\* that order.
CommitOrdering ==
    \A t \in Txns :
        (CommitEnded(t) /\ ret[t].kind = "resolved") =>
            /\ applied[t] = firstStaged[t]
            /\ \A path \in Paths :
                   (\E i \in 1..Len(firstStaged[t]) : firstStaged[t][i] = path) =>
                       LET c == SubSeq(path, 1, 1)
                           batches == BatchesOf(t, c)
                       IN  /\ Len(batches) = 1
                           /\ ChangedPaths(batches[1].changes) =
                                  SelectSeq(firstStaged[t],
                                            LAMBDA q : SubSeq(q, 1, 1) = c)

CommitOrderingWitness ==
    \E t \in Txns :
        /\ CommitEnded(t) /\ ret[t].kind = "resolved"
        /\ firstStaged[t] = << <<"c1", "p1">>, <<"c2", "p2">>, <<"c1", "p3">> >>
        /\ ChangedPaths(BatchesOf(t, <<"c1">>)[1].changes) =
               << <<"c1", "p1">>, <<"c1", "p3">> >>
        /\ ChangedPaths(BatchesOf(t, <<"c2">>)[1].changes) = << <<"c2", "p2">> >>

\* C5. Operation overwrite, as claimed: when the first two calls on a
\* transaction are set(p, A) and set(p, B) without merge, p has one staged
\* entry, its value is B and its kind is the one of the state of p before
\* the transaction: added when p had no stored data, modified when it had.
OperationOverwrite ==
    [][\A t \in Txns :
          ( /\ remaining[t] = MaxCalls - 1
            /\ ret[t].op = "set" /\ ~MergeRequested(ret[t].options)
            /\ Called(t)
            /\ ret'[t].op = "set" /\ ~MergeRequested(ret'[t].options)
            /\ ret'[t].path = ret[t].path )
          => LET path == ret[t].path
             IN  /\ Keys(transactionData'[t]) = <<path>>
                 /\ Keys(transactionOperation'[t]) = <<path>>
                 /\ Lookup(transactionData'[t], path) = ret'[t].data
                 /\ Lookup(transactionOperation'[t], path) =
                        IF store[path] = Undefined THEN "added" ELSE "modified"]_vars

\* C6. Delete dominance: when the latest call on a transaction is delete(p),
\* the staged value of p is absent, its staged kind is removed, and the call
\* returned the transaction.
DeleteDominance ==
    \A t \in Txns :
        ret[t].op = "delete" =>
            /\ ret[t].kind = "this"
            /\ HasKey(transactionData[t], ret[t].path)
            /\ Lookup(transactionData[t], ret[t].path) = Undefined
            /\ Lookup(transactionOperation[t], ret[t].path) = "removed"

\* The deleted path was written before another path was: the delete came
\* after a staged write to it.
DeleteDominanceWitness ==
    \E t \in Txns :
        /\ ret[t].op = "delete"
        /\ Len(transactionOperation[t]) >= 2
        /\ Keys(transactionOperation[t])[1] = ret[t].path
        /\ Lookup(transactionOperation[t], ret[t].path) = "removed"

\* The keys of a value that is undefined or an object.
FieldsOf(v) == IF v = Undefined THEN {} ELSE DOMAIN v[1]

SetClassification ==
    [][\A t \in Txns :
          ( /\ Called(t) /\ ret'[t].op = "set"
            /\ ~HasKey(transactionOperation[t], ret'[t].path) )
          => Lookup(transactionOperation'[t], ret'[t].path) =
                 IF store[ret'[t].path] # Undefined THEN "modified" ELSE "added"]_vars

SetClassificationWitness ==
    \E t \in Txns :
        /\ ret[t].op = "set"
        /\ remaining[t] = MaxCalls - 1
        /\ store[ret[t].path] # Undefined
        /\ transactionOperation[t] = << <<ret[t].path, "modified">> >>

\* C9. Staging does not touch the store: a set, update or delete call leaves
\* the stored data of every document as it was and fires no notification;
\* the store changes only in the loop of a commit.
StagingLeavesStore ==
    [][ /\ \A t \in Txns :
            (Called(t) /\ ret'[t].op \in WriteOps)
            => /\ store' = store
               /\ events'[t] = <<>>
               /\ \A u \in Txns \ {t} : events'[u] = events[u]
        /\ store' # store => \E t \in Txns : pc[t] = "await" ]_vars

StagingLeavesStoreWitness ==
    \E t \in Txns :
        /\ ret[t].op \in WriteOps
        /\ store[ret[t].path] # Undefined
        /\ HasKey(transactionData[t], ret[t].path)
        /\ Lookup(transactionData[t], ret[t].path) # store[ret[t].path]

\* C10. get has no side effects: a get, successful or not, leaves the staged
\* data, the staged operations, the modified flag and the store as they
\* were, and it returns the stored data whenever no write was made before,
\* however many calls preceded it.
GetHasNoSideEffects ==
    [][\A t \in Txns :
          (Called(t) /\ ret'[t].op = "get") =>
              /\ UNCHANGED <<store, modified, transactionData, transactionOperation>>
              /\ IF wrote[t]
                 THEN ret'[t].kind = "ValidationError"
                 ELSE /\ ret'[t].kind = "data"
                      /\ ret'[t].val = store[ret'[t].path]]_vars

\* A get that succeeded as the second call on a transaction that has not
\* written.
GetHasNoSideEffectsWitness ==
    \E t \in Txns :
        /\ ret[t].op = "get" /\ ret[t].kind = "data"
        /\ ret[t].val # Undefined
        /\ remaining[t] = MaxCalls - 2
        /\ ~modified[t]
        /\ transactionData[t] = <<>>

\* C11. Unsupported update form, as claimed: an update called with a field
\* name fails with NotImplementedYet and leaves the transaction as it was:
\* nothing staged for the path, and the modified flag as before the call.
UnsupportedUpdateLeavesState ==
    [][\A t \in Txns :
          (Called(t) /\ ret'[t].op = "update" /\ ret'[t].data = Undefined)
          => /\ ret'[t].kind = "NotImplementedYet"
             /\ transactionData'[t] = transactionData[t]
             /\ transactionOperation'[t] = transactionOperation[t]
             /\ modified'[t] = modified[t]]_vars

\* C11, amended. An update called with a field name fails with
\* NotImplementedYet and stages nothing, but it marks the transaction as
\* modified, as every call of update does.
UnsupportedUpdateMarksModified ==
    [][\A t \in Txns :
          (Called(t) /\ ret'[t].op = "update" /\ ret'[t].data = Undefined)
          => /\ ret'[t].kind = "NotImplementedYet"
             /\ transactionData'[t] = transactionData[t]
             /\ transactionOperation'[t] = transactionOperation[t]
             /\ modified'[t]]_vars

\* The first call on a transaction was an update with a field name.
UnsupportedUpdateWitness ==
    \E t \in Txns :
        /\ ret[t].op = "update" /\ ret[t].data = Undefined
        /\ ret[t].kind = "NotImplementedYet"
        /\ remaining[t] = MaxCalls - 1
        /\ transactionOperation[t] = <<>>
        /\ modified[t]

\* C12. Empty transaction: a commit of a transaction with nothing staged has
\* resolved, without any per-document commit, notification or rollback.
EmptyCommit ==
    \A t \in Txns :
        (ret[t].op = "commit" /\ transactionOperation[t] = <<>>) =>
            /\ ret[t].kind = "resolved"
            /\ pc[t] = "idle"
            /\ invoked[t] = 0
            /\ applied[t] = <<>>
            /\ events[t] = <<>>
            /\ rollbacks[t] = 0
            /\ thrown[t] = ""

\* A transaction that has only read, committed.
EmptyCommitWitness ==
    \E t \in Txns :
        /\ ret[t].op = "commit" /\ ret[t].kind = "resolved"
        /\ transactionOperation[t] = <<>>
        /\ remaining[t] = MaxCalls - 2
        /\ store = InitStore

\* The value the store holds for a path once its staged operation is applied.
Committed(t, path) ==
    IF Lookup(transactionOperation[t], path) = "removed" THEN Undefined
    ELSE Lookup(transactionData[t], path)

\* C13. Partial application on failure: when the per-document commit of the
\* k-th staged path raises, the first k-1 paths are applied to the store and
\* stay applied, no later path is committed, no notification is sent, and
\* rollback changes neither the store nor what the transaction has staged.
PartialApplication ==
    [][\A t \in Txns :
          (pc[t] = "await" /\ pc'[t] = "idle") =>
              LET k == idx[t]
                  staged == Keys(transactionOperation[t])
              IN  /\ thrown'[t] # ""
                  /\ rollbacks'[t] = 1
                  /\ invoked'[t] = k
                  /\ applied'[t] = SubSeq(staged, 1, k - 1)
                  /\ \A i \in 1..(k - 1) : store'[staged[i]] = Committed(t, staged[i])
                  /\ events'[t] = <<>>
                  /\ store' = store
                  /\ modified' = modified
                  /\ transactionData' = transactionData
                  /\ transactionOperation' = transactionOperation]_vars

\* Three staged paths; the commit of the second one raised after the first one
\* had changed the store.
PartialApplicationWitness ==
    \E t \in Txns :
        /\ thrown[t] # ""
        /\ Len(transactionOperation[t]) = 3
        /\ invoked[t] = 2
        /\ Len(applied[t]) = 1
        /\ store[applied[t][1]] # InitStore[applied[t][1]]
        /\ store[Keys(transactionOperation[t])[3]]
               = InitStore[Keys(transactionOperation[t])[3]]

\* C14. Commit phases are strictly sequential: the per-document commit of a
\* staged path starts only when the commits of all staged paths before it have
\* completed, in commit order, and no notification is sent before the
\* per-document commits of all staged paths have completed.
SequentialPhases ==
    \A t \in Txns :
        LET staged == Keys(transactionOperation[t])
        IN  /\ applied[t] = SubSeq(staged, 1, Len(applied[t]))
            /\ invoked[t] = Len(applied[t])
                             + (IF pc[t] = "await" \/ thrown[t] # "" THEN 1 ELSE 0)
            /\ pc[t] \in {"loop", "await"} =>
                   /\ idx[t] = Len(applied[t]) + 1
                   /\ events[t] = <<>>
            /\ events[t] # <<>> =>
                   /\ applied[t] = staged
                   /\ invoked[t] = Len(staged)

\* The commit of the second of three staged paths is in flight: the first one
\* has completed, the third has not started, nothing is notified.
SequentialPhasesWitness ==
    \E t \in Txns :
        /\ pc[t] = "await"
        /\ Len(transactionOperation[t]) = 3
        /\ invoked[t] = 2
        /\ Len(applied[t]) = 1
        /\ events[t] = <<>>

\* The positions in the notifications of t of those sent to a sink.
EventsAt(t, sink, target) ==
    {i \in 1..Len(events[t]) :
        events[t][i].sink = sink /\ events[t][i].target = target}

\* The collections of the store.
Collections == {CollectionPath(path) : path \in Paths}

\* C15. Notifications of a successful commit: every staged path gets exactly
\* one document notification, with the type and old index of its change
\* descriptor and fromCache false; every collection with a staged path gets
\* exactly one batch notification, after the document notifications of that
\* collection; a collection without a staged path gets none.
NotificationProtocol ==
    \A t \in Txns :
        (CommitEnded(t) /\ ret[t].kind = "resolved") =>
            LET staged == Keys(transactionOperation[t])
                IsStaged(path) == \E i \in 1..Len(staged) : staged[i] = path
            IN  /\ \A path \in Paths :
                       Cardinality(EventsAt(t, "document", path)) =
                           (IF IsStaged(path) THEN 1 ELSE 0)
                /\ \A c \in Collections :
                       Cardinality(EventsAt(t, "collection", c)) =
                           (IF \E path \in Paths :
                                   IsStaged(path) /\ CollectionPath(path) = c
                            THEN 1 ELSE 0)
                /\ \A i \in 1..Len(events[t]) :
                       LET e == events[t][i]
                       IN  e.sink = "document" =>
                               /\ e.fromCache = FALSE
                               /\ \E j \in EventsAt(t, "collection",
                                                    CollectionPath(e.target)) :
                                      /\ i < j
                                      /\ \E n \in 1..Len(events[t][j].changes) :
                                             LET d == events[t][j].changes[n]
                                             IN  /\ d.doc = e.target
                                                 /\ d.type = e.type
                                                 /\ d.oldIndex = e.oldIndex

\* A commit of three staged paths in two collections has resolved, one of the
\* paths removed and one added.
NotificationProtocolWitness ==
    \E t \in Txns :
        /\ CommitEnded(t) /\ ret[t].kind = "resolved"
        /\ Len(transactionOperation[t]) = 3
        /\ Len(events[t]) = 5
        /\ \E i, j \in 1..Len(events[t]) :
               /\ events[t][i].type = "removed"
               /\ events[t][j].type = "added"

\* C16. No locking between transactions: when two transactions have staged a
\* write to the same path, the per-document commit of either is never held
\* back or refused because of the other, and once both commits have resolved
\* the store holds for the path what the transaction whose per-document
\* commit ran last had staged.
NoCrossTransactionLocking ==
    /\ \A t \in Txns : pc[t] = "await" => ENABLED commitResume(t)
    /\ \A path \in Paths :
           (\A t \in Txns :
                /\ CommitEnded(t) /\ ret[t].kind = "resolved"
                /\ HasKey(transactionOperation[t], path))
           => /\ lastWriter[path] \in Txns
              /\ store[path] = Committed(lastWriter[path], path)

\* T1 staged a merge when the store still held the initial document, T2 then
\* committed a replacement, and T1 committed last: the store holds the merge
\* into the initial document and nothing of what T2 wrote.
NoCrossTransactionLockingWitness ==
    LET path == PathOrder[1]
    IN  /\ \A t \in Txns : CommitEnded(t) /\ ret[t].kind = "resolved"
        /\ lastWriter[path] = "T1"
        /\ Committed("T2", path) = Some(PayloadA)
        /\ applied["T2"] = <<path>>
        /\ store[path] = Some([a |-> 0, c |-> 4])

WriteAfterStagedDelete ==
    [][\A t \in Txns :
          ( /\ Called(t) /\ ret'[t].op = "set"
            /\ Lookup(transactionOperation[t], ret'[t].path) = "removed"
            /\ store[ret'[t].path] # Undefined )
          => /\ Lookup(transactionOperation'[t], ret'[t].path) = "added"
             /\ MergeRequested(ret'[t].options) =>
                    Lookup(transactionData'[t], ret'[t].path) = ret'[t].data]_vars

\* C19. Commit consumes the staged operations, as claimed: a commit that
\* follows a resolved commit of the same transaction finds nothing staged,
\* resolves at once and leaves the store as it is.
CommitConsumesStaged ==
    [][\A t \in Txns :
          ( /\ ret[t].op = "commit" /\ ret[t].kind = "resolved"
            /\ Called(t) /\ ret'[t].op = "commit" )
          => /\ transactionOperation[t] = <<>>
             /\ ret'[t].kind = "resolved"
             /\ pc'[t] = "idle"]_vars

\* The paths of a staging map are pairwise different.
NoDuplicateKeys(obj) ==
    \A i, j \in 1..Len(obj) : obj[i][1] = obj[j][1] => i = j

\* C20. Staging-map consistency: transactionData and transactionOperation
\* have the same paths as keys, each path once; a path is staged as removed
\* exactly when its staged value is undefined; and a transaction that has
\* anything staged is marked as modified.
StagingMapConsistency ==
    \A t \in Txns :
        LET dataKeys == Keys(transactionData[t])
            operationKeys == Keys(transactionOperation[t])
        IN  /\ {dataKeys[i] : i \in 1..Len(dataKeys)} =
                   {operationKeys[i] : i \in 1..Len(operationKeys)}
            /\ NoDuplicateKeys(transactionData[t])
            /\ NoDuplicateKeys(transactionOperation[t])
            /\ \A i \in 1..Len(operationKeys) :
                   Lookup(transactionOperation[t], operationKeys[i]) = "removed"
                       <=> Lookup(transactionData[t], operationKeys[i]) = Undefined
            /\ Len(operationKeys) > 0 => modified[t]

\* Three paths staged, one removed after it had been written, one added and
\* one modified.
StagingMapConsistencyWitness ==
    \E t \in Txns :
        /\ Len(transactionOperation[t]) = 3
        /\ \E i, j, k \in 1..3 :
               /\ transactionOperation[t][i][2] = "removed"
               /\ transactionOperation[t][j][2] = "added"
               /\ transactionOperation[t][k][2] = "modified"
        /\ pc[t] = "idle"
        /\ remaining[t] = 0

====
